---- MODULE Spec2Model ----
(***************************************************************************)
(* PixelConvert (App component): session state of the image converter and  *)
(* the handlers that change it.  Every handler is one action; the          *)
(* asynchronous callbacks (FileReader.onload, Image.onload, the await in   *)
(* convertImage) are separate actions that the browser may run in any      *)
(* order.                                                                  *)
(***************************************************************************)
EXTENDS Integers, Sequences, FiniteSets, TLC

\* ------------------------------------------------------------- bounds
\* handleFile and convertImage invocations in one behaviour
MaxInvocations == 4

\* ------------------------------------------------------------- values
\* null (a record, so that it compares with the objects the slots hold)
Null == [null |-> TRUE]

\* enum ImageFormat
Formats == {"png", "jpeg", "webp"}

\* files of the user's disk: name -> declared MIME type
ImageFiles == {"a.png", "b.jpg"}
OtherFiles == {"notes.txt"}
DiskFiles == ImageFiles \cup OtherFiles

FileType(f) ==
  CASE f = "a.png" -> "image/png"
    [] f = "b.jpg" -> "image/jpeg"
    [] OTHER -> "text/plain"

\* file.type.startsWith('image/')
IsImageType(f) == FileType(f) \in {"image/png", "image/jpeg"}

FileSize(f) == IF f = "a.png" THEN 2000 ELSE IF f = "b.jpg" THEN 500 ELSE 10
FileWidth(f) == IF f = "a.png" THEN 100 ELSE 20
FileHeight(f) == IF f = "a.png" THEN 50 ELSE 20

\* reader.readAsDataURL(file): the data URL of the file's content
ReadAsDataURL(f) == <<"data", FileType(f), f>>

\* the range input: min 0.1, max 1.0 (in percent); two of the 19 steps
Qualities == {50, 90}

\* lengths of the string canvas.toDataURL may return ("data:," has 6 chars)
DataUrlLens == {6, 26, 1000}

\* the ImageState object built in img.onload
MkSourceImage(f) ==
  [ file |-> f, previewUrl |-> ReadAsDataURL(f), name |-> f,
    size |-> FileSize(f), type |-> FileType(f),
    width |-> FileWidth(f), height |-> FileHeight(f) ]

\* `data:${mimeType};base64,`.length with mimeType = `image/${targetFormat}`
HeadLen(fmt) == Len("data:") + Len("image/") + Len(fmt) + Len(";base64,")

\* mutant of RoundQuarters: the quotient is truncated (Math.floor), not rounded
RoundQuartersTruncates(num) == num \div 4

\* Math.round(x) for x = num / 4: floor(x + 0.5)
RoundQuarters(num) == (num + 2) \div 4

\* Math.round((dataUrl.length - head) * 3 / 4)
EstimateSize(len, fmt) == RoundQuarters((len - HeadLen(fmt)) * 3)

\* a settled (or never settling) invocation keeps only its outcome: nothing
\* reads its closure again
Settled(outcome) == [phase |-> outcome]

VARIABLES
  sourceImage,   \* useState<ImageState | null>
  targetFormat,  \* useState<ImageFormat>
  quality,       \* useState<number>, in percent
  isConverting,  \* useState<boolean>
  result,        \* useState<ConversionResult | null>
  loads,         \* handleFile invocations that passed the type check, in order
  convs,         \* convertImage invocations, in order, with their closures
  alerts,        \* how often each alert() was raised
  sinceReset     \* reset has run and no file was selected or dropped since

vars == <<sourceImage, targetFormat, quality, isConverting, result,
          loads, convs, alerts, sinceReset>>

\* invocations so far
Invocations == Len(loads) + Len(convs) + alerts.invalidFile

Init ==
  /\ sourceImage = Null
  /\ targetFormat = "png"
  /\ quality = 90
  /\ isConverting = FALSE
  /\ result = Null
  /\ loads = <<>>
  /\ convs = <<>>
  /\ alerts = [invalidFile |-> 0, convertFailed |-> 0]
  /\ sinceReset = FALSE

\* ------------------------------------------------------------ handleFile
\* mutant of HandleFile: the rejection alerts but does not return
HandleFileNoReturn(f) ==
  /\ sourceImage = Null
  /\ sinceReset' = FALSE
  /\ Invocations < MaxInvocations
  /\ alerts' = IF IsImageType(f) THEN alerts
                ELSE [alerts EXCEPT !.invalidFile = @ + 1]
  /\ loads' = Append(loads, [file |-> f, phase |-> "reading"])
  /\ UNCHANGED <<sourceImage, targetFormat, quality, isConverting, result,
                 convs>>

\* The drop zone and the file input are rendered only while sourceImage is
\* null; onFileChange and onDrop both call handleFile(files[0]).
HandleFile(f) ==
  /\ sourceImage = Null
  /\ sinceReset' = FALSE
  /\ IF ~IsImageType(f)
       THEN /\ Invocations < MaxInvocations
            /\ alerts' = [alerts EXCEPT !.invalidFile = @ + 1]
            /\ UNCHANGED <<sourceImage, targetFormat, quality, isConverting,
                           result, loads, convs>>
       ELSE /\ Invocations < MaxInvocations
            /\ loads' = Append(loads, [file |-> f, phase |-> "reading"])
            /\ UNCHANGED <<sourceImage, targetFormat, quality, isConverting,
                           result, convs, alerts>>

\* reader.onload: img.src = e.target.result
ReaderOnload(i) ==
  /\ loads[i].phase = "reading"
  /\ loads' = [loads EXCEPT ![i].phase = "decoding"]
  /\ UNCHANGED <<sourceImage, targetFormat, quality, isConverting, result,
                 convs, alerts, sinceReset>>

\* img.onload: setSourceImage({...}); setResult(null).  Neither
\* reader.onerror nor img.onerror is set: a read or decode that fails runs
\* nothing, which is the behaviour where the callback is never taken.
ImgOnload(i) ==
  /\ loads[i].phase = "decoding"
  /\ loads' = [loads EXCEPT ![i].phase = "done"]
  /\ sourceImage' = MkSourceImage(loads[i].file)
  /\ result' = Null
  /\ UNCHANGED <<targetFormat, quality, isConverting, convs, alerts,
                 sinceReset>>

\* ----------------------------------------------------------------- reset
\* the reset button is rendered only while sourceImage is set
Reset ==
  /\ sourceImage # Null
  /\ sourceImage' = Null
  /\ result' = Null
  /\ isConverting' = FALSE
  /\ sinceReset' = TRUE
  /\ UNCHANGED <<targetFormat, quality, loads, convs, alerts>>

\* ------------------------------------------------------ format / quality
SetTargetFormat(fmt) ==
  /\ sourceImage # Null
  /\ targetFormat' = fmt
  /\ UNCHANGED <<sourceImage, quality, isConverting, result, loads, convs,
                 alerts, sinceReset>>

\* the slider is rendered only for JPEG and WEBP
SetQuality(q) ==
  /\ sourceImage # Null
  /\ targetFormat \in {"jpeg", "webp"}
  /\ quality' = q
  /\ UNCHANGED <<sourceImage, targetFormat, isConverting, result, loads,
                 convs, alerts, sinceReset>>

\* ---------------------------------------------------------- convertImage
\* click on the convert button (rendered while sourceImage is set, disabled
\* while isConverting): runs convertImage up to its await.  The closure holds
\* the sourceImage and targetFormat of the render that built it (and its
\* quality, which only the encoder reads: ConvertSucceed draws the encoder's
\* output from every length, so the closure's quality is not kept).
ConvertImage ==
  /\ sourceImage # Null
  /\ ~isConverting
  /\ Invocations < MaxInvocations
  /\ isConverting' = TRUE
  /\ convs' = Append(convs, [ source |-> sourceImage, format |-> targetFormat,
                              phase |-> "decoding" ])
  /\ UNCHANGED <<sourceImage, targetFormat, quality, result, loads, alerts,
                 sinceReset>>

\* mutant of ConvertSucceed: the format is read when the conversion ends, not
\* from the closure of the invocation
ConvertSucceedLateFormat(c, len) ==
  /\ convs[c].phase = "decoding"
  /\ convs' = [convs EXCEPT ![c] = Settled("done")]
  /\ result' = [ url |-> [ pixels |-> convs[c].source.previewUrl, len |-> len ],
                 format |-> targetFormat,
                 size |-> EstimateSize(len, targetFormat) ]
  /\ isConverting' = FALSE
  /\ UNCHANGED <<sourceImage, targetFormat, quality, loads, alerts, sinceReset>>

\* mutant of ConvertSucceed: the success path writes the closure's source back
ConvertSucceedWritesSource(c, len) ==
  /\ convs[c].phase = "decoding"
  /\ convs' = [convs EXCEPT ![c] = Settled("done")]
  /\ result' = [ url |-> [ pixels |-> convs[c].source.previewUrl, len |-> len ],
                 format |-> convs[c].format,
                 size |-> EstimateSize(len, convs[c].format) ]
  /\ isConverting' = FALSE
  /\ sourceImage' = convs[c].source
  /\ UNCHANGED <<targetFormat, quality, loads, alerts, sinceReset>>

\* img.onload resolves the promise; drawImage and toDataURL succeed:
\* setResult({url, format, size}); finally setIsConverting(false)
ConvertSucceed(c, len) ==
  /\ convs[c].phase = "decoding"
  /\ convs' = [convs EXCEPT ![c] = Settled("done")]
  /\ result' = [ url |-> [ pixels |-> convs[c].source.previewUrl, len |-> len ],
                 format |-> convs[c].format,
                 size |-> EstimateSize(len, convs[c].format) ]
  /\ isConverting' = FALSE
  /\ UNCHANGED <<sourceImage, targetFormat, quality, loads, alerts, sinceReset>>

\* mutant of ConvertFail: no finally block, the flag is cleared on success only
ConvertFailNoFinally(c) ==
  /\ convs[c].phase = "decoding"
  /\ convs' = [convs EXCEPT ![c] = Settled("failed")]
  /\ alerts' = [alerts EXCEPT !.convertFailed = @ + 1]
  /\ UNCHANGED <<sourceImage, targetFormat, quality, isConverting, result,
                 loads, sinceReset>>

\* img.onload resolves the promise; getContext returns null or drawImage /
\* toDataURL throws: catch alerts, finally setIsConverting(false)
ConvertFail(c) ==
  /\ convs[c].phase = "decoding"
  /\ convs' = [convs EXCEPT ![c] = Settled("failed")]
  /\ alerts' = [alerts EXCEPT !.convertFailed = @ + 1]
  /\ isConverting' = FALSE
  /\ UNCHANGED <<sourceImage, targetFormat, quality, result, loads, sinceReset>>

\* the image does not decode: img.onerror is not set, the promise never
\* settles and neither catch nor finally runs
ConvertDecodeError(c) ==
  /\ convs[c].phase = "decoding"
  /\ convs' = [convs EXCEPT ![c] = Settled("stuck")]
  /\ UNCHANGED <<sourceImage, targetFormat, quality, isConverting, result,
                 loads, alerts, sinceReset>>

\* ------------------------------------------------------------------ Next
UserStep ==
  \/ \E f \in DiskFiles : HandleFile(f)
  \/ Reset
  \/ \E fmt \in Formats : SetTargetFormat(fmt)
  \/ \E q \in Qualities : SetQuality(q)
  \/ ConvertImage

LoadCallback ==
  \/ \E i \in DOMAIN loads : ReaderOnload(i)
  \/ \E i \in DOMAIN loads : ImgOnload(i)

ConvertCallback ==
  \/ \E c \in DOMAIN convs : \E len \in DataUrlLens : ConvertSucceed(c, len)
  \/ \E c \in DOMAIN convs : ConvertFail(c)
  \/ \E c \in DOMAIN convs : ConvertDecodeError(c)

Next == UserStep \/ LoadCallback \/ ConvertCallback

Spec == Init /\ [][Next]_vars

\* The event loop delivers every pending event: each pending read, decode and
\* conversion gets its load event or its error.
ConvertSettle(c) ==
  \/ \E len \in DataUrlLens : ConvertSucceed(c, len)
  \/ ConvertFail(c)
  \/ ConvertDecodeError(c)

FairSpec ==
  /\ Spec
  /\ \A i \in 1..MaxInvocations : WF_vars(i \in DOMAIN loads /\ ReaderOnload(i))
  /\ \A i \in 1..MaxInvocations : WF_vars(i \in DOMAIN loads /\ ImgOnload(i))
  /\ \A c \in 1..MaxInvocations : WF_vars(c \in DOMAIN convs /\ ConvertSettle(c))

\* ---------------------------------------------------------------- claims
InFlight == {c \in DOMAIN convs : convs[c].phase = "decoding"}
PendingLoads(ls) == {i \in DOMAIN ls : ls[i].phase \in {"reading", "decoding"}}

\* C1: in every reachable state at most one conversion is in flight (invoked
\* and not yet completed).
AtMostOneInFlight == Cardinality(InFlight) <= 1

\* C2: whenever a ConversionResult is present, a SourceImage is set and the
\* result was rendered from that SourceImage.
ResultFromCurrentSource ==
  result # Null =>
    /\ sourceImage # Null
    /\ result.url.pixels = sourceImage.previewUrl

\* C3: from reset until the next file selection or drop, SourceImage and
\* ConversionResult are unset and the convert-in-progress flag is false.
ResetStaysEmpty ==
  sinceReset => (sourceImage = Null /\ result = Null /\ ~isConverting)

\* C4: a conversion's closure holds the target format selected when it was
\* invoked, a result is only ever set by a conversion that ends, and the
\* result it sets has the format of its invocation, whatever the target
\* format is by then.
ResultFormatIsInvokedFormat ==
  [][ /\ Len(convs') = Len(convs) + 1 =>
           convs'[Len(convs')].format = targetFormat
      /\ \A c \in DOMAIN convs :
           (convs[c].phase = "decoding" /\ convs'[c].phase = "done") =>
             (result' # Null /\ result'.format = convs[c].format)
      /\ (result' # result /\ result' # Null) =>
           \E c \in DOMAIN convs :
             convs[c].phase = "decoding" /\ convs'[c].phase = "done"
    ]_vars

\* C4 witness: a conversion has ended with a result in a format (of all three)
\* that is not the target format selected now.
FormatChangedAroundConversion ==
  /\ \E c \in DOMAIN convs : convs[c].phase = "done"
  /\ result # Null
  /\ result.format = "webp"
  /\ targetFormat = "jpeg"

\* C5: a step that raises the invalid-file notice raises it once and changes
\* nothing else, and no load is ever started for a file that is not an image.
RejectedFileChangesNothing ==
  /\ [](\A i \in DOMAIN loads : IsImageType(loads[i].file))
  /\ [][ alerts'.invalidFile # alerts.invalidFile =>
           /\ alerts'.invalidFile = alerts.invalidFile + 1
           /\ alerts'.convertFailed = alerts.convertFailed
           /\ UNCHANGED <<sourceImage, result, isConverting, targetFormat,
                          quality, loads, convs>>
       ]_vars

\* C5 witness: a file was rejected while a load was pending and a conversion
\* of an earlier source was still in flight.
FileRejected ==
  /\ alerts.invalidFile > 0
  /\ sourceImage = Null
  /\ PendingLoads(loads) # {}
  /\ InFlight # {}

\* C6: a conversion that fails raises the generic notice once, clears the
\* convert-in-progress flag, sets no result and leaves SourceImage as it was.
FailedConversionEffect ==
  [][ \A c \in DOMAIN convs :
        (convs[c].phase = "decoding" /\ convs'[c].phase = "failed") =>
          /\ alerts'.convertFailed = alerts.convertFailed + 1
          /\ alerts'.invalidFile = alerts.invalidFile
          /\ ~isConverting'
          /\ result' = result
          /\ sourceImage' = sourceImage
    ]_vars

\* C6 witness: a conversion has failed, the source is still there, and convert
\* was invoked again on it.
ConversionFailedAndRetried ==
  \E c, d \in DOMAIN convs :
    /\ c < d
    /\ convs[c].phase = "failed"
    /\ alerts.convertFailed = 1
    /\ convs[d].phase = "decoding"
    /\ sourceImage = convs[d].source
    /\ Len(loads) = 1

\* C7: no step of convertImage (its invocation, its success, its failure)
\* changes SourceImage, the target format or the quality, or starts a load.
ConvertLeavesSourceAlone ==
  [][ convs' # convs =>
        /\ sourceImage' = sourceImage
        /\ targetFormat' = targetFormat
        /\ quality' = quality
        /\ loads' = loads
    ]_vars

\* C7 witness: one conversion has succeeded and one has failed.
ConvertedAndFailed ==
  /\ \E c \in DOMAIN convs : convs[c].phase = "done"
  /\ \E c \in DOMAIN convs : convs[c].phase = "failed"
  /\ sourceImage # Null

\* C8: the size of a result is (L - H) * 3 / 4 rounded to the nearest integer,
\* halves up, for the length L of its data URL and the length H of
\* 'data:image/<format>;base64,'; H = 22 and L = 1000 give 734.
SizeIsRoundedThreeQuarters ==
  result # Null =>
    LET H == Len("data:image/") + Len(result.format) + Len(";base64,")
        n == result.url.len - H
    IN  /\ 4 * result.size - 2 <= 3 * n
        /\ 3 * n < 4 * result.size + 2
        /\ (H = 22 /\ result.url.len = 1000) => result.size = 734

\* C8 witness: the example, a PNG data URL of 1000 characters.
SizeExample ==
  /\ result # Null
  /\ result.format = "png"
  /\ result.url.len = 1000
  /\ result.size = 734

\* C9: every conversion that is started eventually ends, with a result set or
\* the failure notice raised.
EveryConversionEnds ==
  \A c \in 1..MaxInvocations :
    (c \in DOMAIN convs /\ convs[c].phase = "decoding")
      ~> (c \in DOMAIN convs /\ convs[c].phase \in {"done", "failed"})

\* C10: when the last pending load completes, SourceImage is the file that was
\* selected last.
LatestSelectionWins ==
  [][ ( /\ PendingLoads(loads) # {}
        /\ PendingLoads(loads') = {}
        /\ loads'[Len(loads')].phase = "done" ) =>
        ( /\ sourceImage' # Null
          /\ sourceImage'.file = loads'[Len(loads')].file )
    ]_vars

====
